---- MODULE Spec2Model ----
(***************************************************************************)
(* Lulu UAE sales dashboard: column resolver, schema normaliser, filter    *)
(* step and aggregation helpers of the two dashboard scripts               *)
(*   impl = "A" : src/implulu_sales_dashboardexe.py  (prepare_data)        *)
(*   impl = "B" : src/unnamed/part_000               (prepare_dataframe)   *)
(* A Streamlit script runs top to bottom on every interaction; pc is the   *)
(* position of the current run in the script.                              *)
(***************************************************************************)
EXTENDS Integers, Sequences, FiniteSets, TLC

\* ------------------------------------------------------------------------
\* Column names are sequences of one-character strings so that the
\* resolver's `t in c.lower()` is a real substring test.
\* ------------------------------------------------------------------------

\* canonical column names written by the rename step
c_SalesAmount == <<"S","a","l","e","s","A","m","o","u","n","t">>
c_Quantity == <<"Q","u","a","n","t","i","t","y">>
c_Department == <<"D","e","p","a","r","t","m","e","n","t">>
c_Store_Format == <<"S","t","o","r","e","_","F","o","r","m","a","t">>
c_Category == <<"C","a","t","e","g","o","r","y">>
c_Product == <<"P","r","o","d","u","c","t">>
c_Campaign == <<"C","a","m","p","a","i","g","n">>
c_Channel == <<"C","h","a","n","n","e","l">>
c_PromoCode == <<"P","r","o","m","o","C","o","d","e">>
c_Gender == <<"G","e","n","d","e","r">>
c_Age == <<"A","g","e">>
c_Nationality == <<"N","a","t","i","o","n","a","l","i","t","y">>
c_City == <<"C","i","t","y">>
c_Zone == <<"Z","o","n","e">>
c_Transaction == <<"T","r","a","n","s","a","c","t","i","o","n">>
c_Date == <<"D","a","t","e">>
c_CustomerType == <<"C","u","s","t","o","m","e","r","T","y","p","e">>
c_AgeGroup == <<"A","g","e","G","r","o","u","p">>
c_PromoUsed == <<"P","r","o","m","o","U","s","e","d">>

\* the ordered synonym lists of detect_columns, file A
terms_A ==
  [ amount |->
      << <<"a","m","o","u","n","t">>,
         <<"s","a","l","e","s">>,
         <<"r","e","v","e","n","u","e">>,
         <<"t","o","t","a","l">>,
         <<"p","a","i","d">>,
         <<"v","a","l","u","e">> >>,
    qty |->
      << <<"q","t","y">>,
         <<"q","u","a","n","t","i","t","y">>,
         <<"u","n","i","t","s">> >>,
    department |->
      << <<"d","e","p","a","r","t","m","e","n","t">>,
         <<"d","e","p","t">> >>,
    store_format |->
      << <<"s","t","o","r","e","_","f","o","r","m","a","t">>,
         <<"s","t","o","r","e"," ","f","o","r","m","a","t">>,
         <<"f","o","r","m","a","t">>,
         <<"s","t","o","r","e","t","y","p","e">> >>,
    category |->
      << <<"c","a","t","e","g","o","r","y">>,
         <<"c","a","t">>,
         <<"s","u","b","_","c","a","t","e","g","o","r","y">> >>,
    product |->
      << <<"p","r","o","d","u","c","t">>,
         <<"s","k","u">>,
         <<"i","t","e","m">>,
         <<"p","r","o","d","u","c","t","_","n","a","m","e">>,
         <<"b","r","a","n","d">> >>,
    campaign |->
      << <<"c","a","m","p","a","i","g","n">>,
         <<"a","d","_","c","a","m","p","a","i","g","n">>,
         <<"c","a","m","p","a","i","g","n","_","n","a","m","e">> >>,
    channel |->
      << <<"c","h","a","n","n","e","l">>,
         <<"a","d","_","c","h","a","n","n","e","l">>,
         <<"m","e","d","i","a","_","c","h","a","n","n","e","l">> >>,
    promo |->
      << <<"p","r","o","m","o">>,
         <<"v","o","u","c","h","e","r">>,
         <<"c","o","u","p","o","n">>,
         <<"d","i","s","c","o","u","n","t">> >>,
    gender |->
      << <<"g","e","n","d","e","r">> >>,
    age |->
      << <<"a","g","e">>,
         <<"c","u","s","t","o","m","e","r","_","a","g","e">> >>,
    nationality |->
      << <<"n","a","t","i","o","n">>,
         <<"c","o","u","n","t","r","y">>,
         <<"n","a","t","i","o","n","a","l","i","t","y">> >>,
    city |->
      << <<"c","i","t","y">>,
         <<"l","o","c","a","t","i","o","n">> >>,
    zone |->
      << <<"z","o","n","e">>,
         <<"a","r","e","a">>,
         <<"d","i","s","t","r","i","c","t">> >>,
    transaction |->
      << <<"i","n","v","o","i","c","e">>,
         <<"t","r","a","n","s","a","c","t","i","o","n">>,
         <<"o","r","d","e","r">>,
         <<"r","e","c","e","i","p","t">>,
         <<"t","x","n">> >>,
    date |->
      << <<"d","a","t","e">>,
         <<"t","r","a","n","s","a","c","t","i","o","n","_","d","a","t","e">>,
         <<"p","u","r","c","h","a","s","e","_","d","a","t","e">> >>,
    customer_type |->
      << <<"c","u","s","t","o","m","e","r","_","t","y","p","e">>,
         <<"n","e","w","_","r","e","p","e","a","t">>,
         <<"c","u","s","t","o","m","e","r","_","s","t","a","t","u","s">> >> ]

\* the ordered synonym lists of detect_columns, file B
terms_B ==
  [ amount |->
      << <<"a","m","o","u","n","t">>,
         <<"s","a","l","e","s">>,
         <<"r","e","v","e","n","u","e">>,
         <<"n","e","t">>,
         <<"t","o","t","a","l">>,
         <<"p","a","i","d">>,
         <<"v","a","l","u","e">> >>,
    qty |->
      << <<"q","t","y">>,
         <<"q","u","a","n","t","i","t","y">>,
         <<"u","n","i","t","s">> >>,
    department |->
      << <<"d","e","p","a","r","t","m","e","n","t">>,
         <<"d","e","p","t">> >>,
    store_format |->
      << <<"s","t","o","r","e","_","f","o","r","m","a","t">>,
         <<"s","t","o","r","e"," ","f","o","r","m","a","t">>,
         <<"f","o","r","m","a","t">>,
         <<"s","t","o","r","e","t","y","p","e">>,
         <<"s","t","o","r","e","_","t","y","p","e">> >>,
    category |->
      << <<"c","a","t","e","g","o","r","y">>,
         <<"c","a","t">>,
         <<"s","u","b","_","c","a","t","e","g","o","r","y">>,
         <<"s","u","b","c","a","t">> >>,
    product |->
      << <<"p","r","o","d","u","c","t">>,
         <<"s","k","u">>,
         <<"i","t","e","m">>,
         <<"p","r","o","d","u","c","t","_","n","a","m","e">>,
         <<"b","r","a","n","d">> >>,
    campaign |->
      << <<"c","a","m","p","a","i","g","n">>,
         <<"a","d","_","c","a","m","p","a","i","g","n">>,
         <<"c","a","m","p","a","i","g","n","_","n","a","m","e">> >>,
    channel |->
      << <<"c","h","a","n","n","e","l">>,
         <<"a","d","_","c","h","a","n","n","e","l">>,
         <<"m","e","d","i","a","_","c","h","a","n","n","e","l">> >>,
    promo |->
      << <<"p","r","o","m","o">>,
         <<"v","o","u","c","h","e","r">>,
         <<"c","o","u","p","o","n">>,
         <<"p","r","o","m","o","_","c","o","d","e">>,
         <<"d","i","s","c","o","u","n","t">> >>,
    gender |->
      << <<"g","e","n","d","e","r">> >>,
    age |->
      << <<"a","g","e">>,
         <<"c","u","s","t","o","m","e","r","_","a","g","e">>,
         <<"a","g","e","_","g","r","o","u","p">> >>,
    nationality |->
      << <<"n","a","t","i","o","n","a","l">>,
         <<"c","o","u","n","t","r","y">>,
         <<"n","a","t","i","o","n","a","l","i","t","y">> >>,
    city |->
      << <<"c","i","t","y">>,
         <<"l","o","c","a","t","i","o","n">> >>,
    zone |->
      << <<"z","o","n","e">>,
         <<"a","r","e","a">>,
         <<"d","i","s","t","r","i","c","t">> >>,
    transaction |->
      << <<"i","n","v","o","i","c","e">>,
         <<"t","r","a","n","s","a","c","t","i","o","n">>,
         <<"o","r","d","e","r">>,
         <<"r","e","c","e","i","p","t">>,
         <<"b","i","l","l">>,
         <<"t","x","n">> >>,
    date |->
      << <<"d","a","t","e">>,
         <<"t","r","a","n","s","a","c","t","i","o","n","_","d","a","t","e">>,
         <<"p","u","r","c","h","a","s","e","_","d","a","t","e">> >>,
    customer_type |->
      << <<"c","u","s","t","o","m","e","r","_","t","y","p","e">>,
         <<"n","e","w","_","r","e","p","e","a","t">>,
         <<"c","u","s","t","o","m","e","r","_","s","t","a","t","u","s">> >> ]

\* the fixed role order of the mapping dict returned by detect_columns
Roles ==
  << "amount", "qty", "department", "store_format", "category", "product",
     "campaign", "channel", "promo", "gender", "age", "nationality", "city",
     "zone", "transaction", "date", "customer_type" >>

RoleSet == { Roles[i] : i \in 1..Len(Roles) }

\* Python None for a role without a column; no column name is empty
None == <<>>

\* str.lower on one character
lower_char(ch) ==
  CASE ch = "A" -> "a" [] ch = "B" -> "b" [] ch = "C" -> "c" [] ch = "D" -> "d"
    [] ch = "E" -> "e" [] ch = "F" -> "f" [] ch = "G" -> "g" [] ch = "H" -> "h"
    [] ch = "I" -> "i" [] ch = "J" -> "j" [] ch = "K" -> "k" [] ch = "L" -> "l"
    [] ch = "M" -> "m" [] ch = "N" -> "n" [] ch = "O" -> "o" [] ch = "P" -> "p"
    [] ch = "Q" -> "q" [] ch = "R" -> "r" [] ch = "S" -> "s" [] ch = "T" -> "t"
    [] ch = "U" -> "u" [] ch = "V" -> "v" [] ch = "W" -> "w" [] ch = "X" -> "x"
    [] ch = "Y" -> "y" [] ch = "Z" -> "z" [] OTHER -> ch

\* c.lower()
lower(c) == [i \in 1..Len(c) |-> lower_char(c[i])]

\* Python `t in s` on strings: t occurs in s as a contiguous substring
str_in(t, s) ==
  \E i \in 1..(Len(s) - Len(t) + 1) : SubSeq(s, i, i + Len(t) - 1) = t

\* inner loop of find: `for c in cols: if t in c.lower(): return c`
RECURSIVE find_in_cols(_, _, _)
find_in_cols(t, cols, j) ==
  IF j > Len(cols) THEN None
  ELSE IF str_in(t, lower(cols[j])) THEN cols[j]
  ELSE find_in_cols(t, cols, j + 1)

\* outer loop of find: `for t in terms: ...; return None`
RECURSIVE find_from(_, _, _)
find_from(terms, cols, i) ==
  IF i > Len(terms) THEN None
  ELSE LET c == find_in_cols(terms[i], cols, 1)
       IN  IF c # None THEN c ELSE find_from(terms, cols, i + 1)

\* the loops of find nested the other way round: the first column that
\* contains any of the terms
RECURSIVE find_colmajor_from(_, _, _)
find_colmajor_from(terms, cols, j) ==
  IF j > Len(cols) THEN None
  ELSE IF \E i \in 1..Len(terms) : str_in(terms[i], lower(cols[j])) THEN cols[j]
  ELSE find_colmajor_from(terms, cols, j + 1)

find_colmajor(terms, cols) == find_colmajor_from(terms, cols, 1)

\* find returning the lower-cased name it compared instead of the column
RECURSIVE find_lowered_from(_, _, _)
find_lowered_from(terms, cols, i) ==
  IF i > Len(terms) THEN None
  ELSE IF find_in_cols(terms[i], cols, 1) # None
    THEN lower(find_in_cols(terms[i], cols, 1))
  ELSE find_lowered_from(terms, cols, i + 1)

find_lowered(terms, cols) == find_lowered_from(terms, cols, 1)

find(terms, cols) == find_from(terms, cols, 1)

terms_of(im) == IF im = "A" THEN terms_A ELSE terms_B

\* detect_columns(df): one find per role over df.columns
detect_columns(im, cols) == [r \in RoleSet |-> find(terms_of(im)[r], cols)]

\* ------------------------------------------------------------------------
\* Cell values of a DataFrame.  k is the Python/pandas type of the cell.
\* ------------------------------------------------------------------------
NaN     == [k |-> "null",  v |-> 0]      \* NaN / NaT / None
IntV(n)  == [k |-> "int",   v |-> n]
FltV(n)  == [k |-> "float", v |-> n]      \* n.0
StrV(s)  == [k |-> "str",   v |-> s]
TsV(t)   == [k |-> "ts",    v |-> t]      \* pandas Timestamp
BoolV(b) == [k |-> "bool",  v |-> b]

isna(x) == x.k = "null"
is_num(x) == x.k \in {"int", "float"}

\* largest number a cell of the modelled inputs can spell
MaxNum == 120

NumDomain == (0 - 20)..MaxNum

\* str(int) and str(float) of Python
int_str(n) == ToString(n)
flt_str(n) == ToString(n) \o ".0"

\* numeric parsing as done by the CSV reader and by pd.to_numeric: the
\* inverse of the two spellings above, NaN for any other text
parse_num(s) ==
  IF \E n \in NumDomain : int_str(n) = s
    THEN IntV(CHOOSE n \in NumDomain : int_str(n) = s)
  ELSE IF \E n \in NumDomain : flt_str(n) = s
    THEN FltV(CHOOSE n \in NumDomain : flt_str(n) = s)
  ELSE NaN

\* Calendar of the model: day d is DayStr[d]; a timestamp is a day and a
\* time of day in ticks (tick 0 is midnight); day 1 is the epoch.
DayStr ==
  << "1970-01-01", "2023-12-31", "2024-01-01", "2024-01-15", "2024-01-31",
     "2024-02-01", "2026-11-03", "2026-11-04" >>

TicksPerDay == 2

Days == 1..Len(DayStr)
TsDomain == (1 * TicksPerDay)..(Len(DayStr) * TicksPerDay + TicksPerDay - 1)

\* Timestamp.date()
date_of(t) == t \div TicksPerDay
\* pd.to_datetime(date): midnight of that day
midnight(d) == d * TicksPerDay

\* str(Timestamp): "YYYY-MM-DD HH:00:00"
hour_str(h) == IF h < 10 THEN "0" \o ToString(h) ELSE ToString(h)
ts_str(t) ==
  DayStr[date_of(t)] \o " "
    \o hour_str((t % TicksPerDay) * (24 \div TicksPerDay)) \o ":00:00"

\* a text that spells a timestamp, or a date alone (midnight of that day)
parse_ts(s) ==
  IF \E t \in TsDomain : ts_str(t) = s
    THEN TsV(CHOOSE t \in TsDomain : ts_str(t) = s)
  ELSE IF \E d \in Days : DayStr[d] = s
    THEN TsV(midnight(CHOOSE d \in Days : DayStr[d] = s))
  ELSE NaN

\* ------------------------------------------------------------------------
\* A table is a sequence of column names and a sequence of rows; a row is
\* a sequence of cells, one per column position.
\* ------------------------------------------------------------------------
ncols(d) == Len(d.cols)
nrows(d) == Len(d.rows)

\* positions of the columns named c (pandas allows duplicated labels)
pos_of(d, c) == { j \in 1..Len(d.cols) : d.cols[j] = c }
has_col(d, c) == pos_of(d, c) # {}
at(d, c) == CHOOSE j \in pos_of(d, c) : TRUE

\* d[c] of row i, for a column label that occurs once
cell(d, i, c) == d.rows[i][at(d, c)]

\* the cells of column position j, top to bottom
series(d, j) == [i \in 1..Len(d.rows) |-> d.rows[i][j]]

\* ---- pd.read_csv: NA markers and per-column type inference -------------
na_values == {"", "nan", "NaN", "NA", "NULL", "N/A"}

csv_dtype(cells) ==
  LET present == { cells[i] : i \in { i \in 1..Len(cells) : cells[i] \notin na_values } }
      anyna   == \E i \in 1..Len(cells) : cells[i] \in na_values
  IN  IF present = {} THEN "float"
      ELSE IF \A s \in present : parse_num(s).k = "int"
        THEN (IF anyna THEN "float" ELSE "int")
      ELSE IF \A s \in present : is_num(parse_num(s)) THEN "float"
      ELSE IF ~anyna /\ present \subseteq {"True", "False"} THEN "bool"
      ELSE "object"

csv_cell(s, dt) ==
  IF s \in na_values THEN NaN
  ELSE CASE dt = "int"   -> IntV(parse_num(s).v)
         [] dt = "float" -> FltV(parse_num(s).v)
         [] dt = "bool"  -> BoolV(s = "True")
         [] OTHER        -> StrV(s)

read_csv(f) ==
  [ cols |-> f.cols,
    rows |-> [i \in 1..Len(f.rows) |->
               [j \in 1..Len(f.cols) |->
                  csv_cell(f.rows[i][j], csv_dtype(series(f, j)))]] ]

\* ---- DataFrame.to_csv(index=False) -------------------------------------
\* a datetime column whose times are all midnight is written as dates
dates_only(cells) ==
  \A i \in 1..Len(cells) : cells[i].k = "ts" => cells[i].v % TicksPerDay = 0

\* a numeric column with a float or a missing value has dtype float64 and
\* all its numbers are written with a decimal point
float_col(cells) ==
  /\ \A i \in 1..Len(cells) : is_num(cells[i]) \/ isna(cells[i])
  /\ \E i \in 1..Len(cells) : cells[i].k = "float" \/ isna(cells[i])

\* the text of one cell; NaN and NaT are written as the empty field
csv_text(x, dates, floats) ==
  CASE x.k = "null"  -> ""
    [] x.k = "int"   -> IF floats THEN flt_str(x.v) ELSE int_str(x.v)
    [] x.k = "float" -> flt_str(x.v)
    [] x.k = "bool"  -> IF x.v THEN "True" ELSE "False"
    [] x.k = "ts"    -> IF dates THEN DayStr[date_of(x.v)] ELSE ts_str(x.v)
    [] OTHER         -> x.v

to_csv(d) ==
  [ cols |-> d.cols,
    rows |-> [i \in 1..Len(d.rows) |->
               [j \in 1..Len(d.cols) |->
                  csv_text(d.rows[i][j], dates_only(series(d, j)),
                           float_col(series(d, j)))]] ]

\* ------------------------------------------------------------------------
\* Schema normaliser: prepare_data (file A) and prepare_dataframe (file B)
\* ------------------------------------------------------------------------
canon_of ==
  [ amount |-> c_SalesAmount, qty |-> c_Quantity, department |-> c_Department,
    store_format |-> c_Store_Format, category |-> c_Category,
    product |-> c_Product, campaign |-> c_Campaign, channel |-> c_Channel,
    promo |-> c_PromoCode, gender |-> c_Gender, age |-> c_Age,
    nationality |-> c_Nationality, city |-> c_City, zone |-> c_Zone,
    transaction |-> c_Transaction, date |-> c_Date,
    customer_type |-> c_CustomerType ]

text_cols ==
  << c_Department, c_Store_Format, c_Category, c_Product, c_Campaign,
     c_Channel, c_PromoCode, c_Gender, c_Nationality, c_City, c_Zone,
     c_CustomerType >>

\* the dict ren filled so that a column keeps the name of the first role
\* that resolved to it
RECURSIVE build_ren_first(_, _, _)
build_ren_first(mapping, ren, i) ==
  IF i > Len(Roles) THEN ren
  ELSE LET col == mapping[Roles[i]]
       IN  build_ren_first(mapping,
                           IF col # None THEN ren @@ (col :> canon_of[Roles[i]]) ELSE ren,
                           i + 1)

\* the dict ren: roles are visited in order, `ren[col] = name` overwrites
RECURSIVE build_ren(_, _, _)
build_ren(mapping, ren, i) ==
  IF i > Len(Roles) THEN ren
  ELSE LET col == mapping[Roles[i]]
       IN  build_ren(mapping,
                     IF col # None THEN (col :> canon_of[Roles[i]]) @@ ren ELSE ren,
                     i + 1)

\* d.rename(columns=ren)
rename(d, ren) ==
  [d EXCEPT !.cols = [j \in 1..Len(d.cols) |->
                        IF d.cols[j] \in DOMAIN ren THEN ren[d.cols[j]] ELSE d.cols[j]]]

\* d[c] = vals : overwrite every column labelled c, or append a new column
set_col(d, c, vals) ==
  IF has_col(d, c)
    THEN [d EXCEPT !.rows = [i \in 1..Len(d.rows) |->
                               [j \in 1..Len(d.cols) |->
                                  IF d.cols[j] = c THEN vals[i] ELSE d.rows[i][j]]]]
    ELSE [cols |-> Append(d.cols, c),
          rows |-> [i \in 1..Len(d.rows) |-> Append(d.rows[i], vals[i])]]

\* d[c] = d[c].map(f), cell by cell in every column labelled c
map_col(d, c, f(_)) ==
  [d EXCEPT !.rows = [i \in 1..Len(d.rows) |->
                        [j \in 1..Len(d.cols) |->
                           IF d.cols[j] = c THEN f(d.rows[i][j]) ELSE d.rows[i][j]]]]

const_col(d, x) == [i \in 1..Len(d.rows) |-> x]

\* pd.to_numeric(errors='coerce') on one cell
to_numeric(x) ==
  IF is_num(x) THEN x
  ELSE IF x.k = "str" THEN parse_num(x.v)
  ELSE IF x.k = "bool" THEN IntV(IF x.v THEN 1 ELSE 0)
  ELSE NaN

\* a conversion that turns unreadable text into the epoch instead of NaT
to_datetime_epoch(x) ==
  IF x.k = "ts" THEN x
  ELSE IF x.k = "str"
    THEN (IF isna(parse_ts(x.v)) THEN TsV(midnight(1)) ELSE parse_ts(x.v))
  ELSE IF is_num(x) THEN TsV(midnight(1))
  ELSE NaN

\* pd.to_datetime(errors='coerce') on one cell
to_datetime(x) ==
  IF x.k = "ts" THEN x
  ELSE IF x.k = "str" THEN parse_ts(x.v)
  ELSE IF is_num(x) THEN TsV(midnight(1))
  ELSE NaN

fillna(x, dflt) == IF isna(x) THEN dflt ELSE x

\* astype(str) on one cell
astype_str(x) ==
  CASE x.k = "str"   -> x
    [] x.k = "int"   -> StrV(int_str(x.v))
    [] x.k = "float" -> StrV(flt_str(x.v))
    [] x.k = "bool"  -> StrV(IF x.v THEN "True" ELSE "False")
    [] x.k = "ts"    -> StrV(ts_str(x.v))
    [] OTHER         -> StrV("nan")

\* the chain of comparisons written with <= instead of <
age_group_le(age) ==
  IF isna(age) THEN StrV("Unknown")
  ELSE IF age.v <= 18 THEN StrV("13-17")
  ELSE IF age.v <= 25 THEN StrV("18-24")
  ELSE IF age.v <= 35 THEN StrV("25-34")
  ELSE IF age.v <= 45 THEN StrV("35-44")
  ELSE IF age.v <= 55 THEN StrV("45-54")
  ELSE IF age.v <= 65 THEN StrV("55-64")
  ELSE StrV("65+")

\* get_age_group (A) / age_group (B): the same chain of comparisons
age_group(age) ==
  IF isna(age) THEN StrV("Unknown")
  ELSE IF age.v < 18 THEN StrV("13-17")
  ELSE IF age.v < 25 THEN StrV("18-24")
  ELSE IF age.v < 35 THEN StrV("25-34")
  ELSE IF age.v < 45 THEN StrV("35-44")
  ELSE IF age.v < 55 THEN StrV("45-54")
  ELSE IF age.v < 65 THEN StrV("55-64")
  ELSE StrV("65+")

\* A normaliser run is threaded through a record [err, d]: err is "none"
\* or the exception that ended the run, d the table built so far.
is_dup(d, c) == Cardinality(pos_of(d, c)) > 1

\* the same step with the two defaults exchanged: an uncoercible cell gets
\* the value of the absent column
numeric_step_swapped(s, c, absent, fill) ==
  IF s.err # "none" THEN s
  ELSE IF ~has_col(s.d, c) THEN [s EXCEPT !.d = set_col(s.d, c, const_col(s.d, fill))]
  ELSE IF is_dup(s.d, c) THEN [s EXCEPT !.err = "TypeError"]
  ELSE [s EXCEPT !.d = map_col(s.d, c, LAMBDA x : fillna(to_numeric(x), absent))]

\* `if c in d.columns: d[c] = pd.to_numeric(d[c], errors='coerce').fillna(fill)
\*  else: d[c] = absent`; to_numeric rejects the DataFrame that a
\* duplicated label selects
numeric_step(s, c, absent, fill) ==
  IF s.err # "none" THEN s
  ELSE IF ~has_col(s.d, c) THEN [s EXCEPT !.d = set_col(s.d, c, const_col(s.d, absent))]
  ELSE IF is_dup(s.d, c) THEN [s EXCEPT !.err = "TypeError"]
  ELSE [s EXCEPT !.d = map_col(s.d, c, LAMBDA x : fillna(to_numeric(x), fill))]

\* A: `if 'Transaction' not in d.columns: d['Transaction'] = range(len(d))`
transaction_step_A(s) ==
  IF s.err # "none" \/ has_col(s.d, c_Transaction) THEN s
  ELSE [s EXCEPT !.d = set_col(s.d, c_Transaction,
                               [i \in 1..nrows(s.d) |-> IntV(i - 1)])]

\* B: d.index.astype(str) when absent, d['Transaction'].astype(str) otherwise
transaction_step_B(s) ==
  IF s.err # "none" THEN s
  ELSE IF ~has_col(s.d, c_Transaction)
    THEN [s EXCEPT !.d = set_col(s.d, c_Transaction,
                                 [i \in 1..nrows(s.d) |-> StrV(int_str(i - 1))])]
  ELSE [s EXCEPT !.d = map_col(s.d, c_Transaction, astype_str)]

\* A: np.random.randint(18, 65, len(d)) when absent, else
\*    to_numeric(...).fillna(30);  rnd is the array drawn by randint
age_step_A(s, rnd) ==
  IF s.err # "none" THEN s
  ELSE IF ~has_col(s.d, c_Age)
    THEN [s EXCEPT !.d = set_col(s.d, c_Age, [i \in 1..nrows(s.d) |-> IntV(rnd[i])])]
  ELSE IF is_dup(s.d, c_Age) THEN [s EXCEPT !.err = "TypeError"]
  ELSE [s EXCEPT !.d = map_col(s.d, c_Age, LAMBDA x : fillna(to_numeric(x), IntV(30)))]

\* B: to_numeric(...) without fillna when present, else randint
age_step_B(s, rnd) ==
  IF s.err # "none" THEN s
  ELSE IF ~has_col(s.d, c_Age)
    THEN [s EXCEPT !.d = set_col(s.d, c_Age, [i \in 1..nrows(s.d) |-> IntV(rnd[i])])]
  ELSE IF is_dup(s.d, c_Age) THEN [s EXCEPT !.err = "TypeError"]
  ELSE [s EXCEPT !.d = map_col(s.d, c_Age, to_numeric)]

\* d['AgeGroup'] = d['Age'].apply(age_group)
age_group_step(s) ==
  IF s.err # "none" THEN s
  ELSE [s EXCEPT !.d = set_col(s.d, c_AgeGroup,
                               [i \in 1..nrows(s.d) |-> age_group(cell(s.d, i, c_Age))])]

\* the same loop with the two calls exchanged: astype(str) before fillna
RECURSIVE fill_text_str_first(_, _)
fill_text_str_first(d, n) ==
  IF n > Len(text_cols) THEN d
  ELSE fill_text_str_first(IF has_col(d, text_cols[n])
                             THEN map_col(d, text_cols[n],
                                          LAMBDA x : fillna(astype_str(x), StrV("Unknown")))
                             ELSE d,
                           n + 1)

\* `for c in text_cols: if c in d.columns: d[c] = d[c].fillna('Unknown').astype(str)`
RECURSIVE fill_text(_, _)
fill_text(d, n) ==
  IF n > Len(text_cols) THEN d
  ELSE fill_text(IF has_col(d, text_cols[n])
                   THEN map_col(d, text_cols[n],
                                LAMBDA x : astype_str(fillna(x, StrV("Unknown"))))
                   ELSE d,
                 n + 1)

text_step(s) == IF s.err # "none" THEN s ELSE [s EXCEPT !.d = fill_text(s.d, 1)]

\* `if 'Date' in d.columns: d['Date'] = pd.to_datetime(d['Date'], errors='coerce')
\*  else: d['Date'] = pd.Timestamp.now()`; to_datetime cannot assemble
\* dates from the DataFrame that a duplicated label selects
date_step(s, now) ==
  IF s.err # "none" THEN s
  ELSE IF ~has_col(s.d, c_Date)
    THEN [s EXCEPT !.d = set_col(s.d, c_Date, const_col(s.d, TsV(now)))]
  ELSE IF is_dup(s.d, c_Date) THEN [s EXCEPT !.err = "ValueError"]
  ELSE [s EXCEPT !.d = map_col(s.d, c_Date, to_datetime)]

\* A: lambda x: x != 'Unknown' and x != '' if isinstance(x, str) else False
promo_used_A(x) == BoolV(IF x.k = "str" THEN x.v # "Unknown" /\ x.v # "" ELSE FALSE)

\* str.strip() over the strings of the model: only the all-blank ones change
BlankStrings == {" ", "  "}
strip(t) == IF t \in BlankStrings THEN "" ELSE t

\* B: .astype(str).str.strip().replace({'nan':'','None':''})
\*      .apply(lambda x: bool(x) and x != '')
promo_used_B(x) ==
  LET t == strip(astype_str(x).v)
      u == IF t \in {"nan", "None"} THEN "" ELSE t
  IN  BoolV(u # "")

promo_step(s, used(_), dup_err) ==
  IF s.err # "none" THEN s
  ELSE IF ~has_col(s.d, c_PromoCode)
    THEN [s EXCEPT !.d = set_col(s.d, c_PromoUsed, const_col(s.d, BoolV(FALSE)))]
  ELSE IF is_dup(s.d, c_PromoCode) THEN [s EXCEPT !.err = dup_err]
  ELSE [s EXCEPT !.d = set_col(s.d, c_PromoUsed,
                               [i \in 1..nrows(s.d) |-> used(cell(s.d, i, c_PromoCode))])]

start_run(df, mapping) ==
  [err |-> "none", d |-> rename(df, build_ren(mapping, [x \in {} |-> x], 1))]

\* prepare_data(df, mapping) of file A; rnd and now are what randint and
\* Timestamp.now() return in this call
prepare_data(df, mapping, rnd, now) ==
  LET s1 == numeric_step(start_run(df, mapping), c_SalesAmount, FltV(1), IntV(0))
      s2 == numeric_step(s1, c_Quantity, IntV(1), IntV(1))
      s3 == transaction_step_A(s2)
      s4 == age_step_A(s3, rnd)
      s5 == age_group_step(s4)
      s6 == text_step(s5)
      s7 == date_step(s6, now)
  IN  promo_step(s7, promo_used_A, "ValueError")

\* prepare_dataframe(df, mapping) of file B
prepare_dataframe(df, mapping, rnd, now) ==
  LET s1 == numeric_step(start_run(df, mapping), c_SalesAmount, FltV(1), FltV(0))
      s2 == numeric_step(s1, c_Quantity, IntV(1), IntV(1))
      s3 == transaction_step_B(s2)
      s4 == age_step_B(s3, rnd)
      s5 == age_group_step(s4)
      s6 == text_step(s5)
      s7 == date_step(s6, now)
  IN  promo_step(s7, promo_used_B, "AttributeError")

\* ------------------------------------------------------------------------
\* Input files.  A file is a header and rows of text cells ("" is a blank
\* cell).  Each input column has four sample cells; pool row k of a header
\* takes sample k of every column, and a file is a header with at most
\* MaxRows pool rows in any order.
\* ------------------------------------------------------------------------
MaxRows == 2

h_id == <<"i","d">>
h_rev_total == <<"r","e","v","_","t","o","t","a","l">>
h_amount_usd == <<"a","m","o","u","n","t","_","u","s","d">>
h_Invoice == <<"I","n","v","o","i","c","e">>
h_Qty == <<"Q","t","y">>
h_Dept == <<"D","e","p","t">>
h_customer_age == <<"c","u","s","t","o","m","e","r","_","a","g","e">>
h_age_years == <<"a","g","e","_","y","e","a","r","s">>
h_member_age == <<"m","e","m","b","e","r","_","a","g","e">>
h_Promo_Code == <<"P","r","o","m","o","_","C","o","d","e">>
h_sales_units == <<"s","a","l","e","s","_","u","n","i","t","s">>
h_order_date == <<"o","r","d","e","r","_","d","a","t","e">>

samples(c) ==
  CASE c = h_id           -> << "1", "2", "3", "4" >>
    [] c = h_rev_total    -> << "7", "8", "9", "10" >>
    [] c = h_amount_usd   -> << "100", "bad", "50", "" >>
    [] c = h_Invoice      -> << "INV1", "INV1", "INV2", "INV3" >>
    [] c = h_Qty          -> << "2", "1", "", "3" >>
    [] c = c_City         -> << "Dubai", "Dubai", "AbuDhabi", "" >>
    [] c = c_Store_Format -> << "Hyper", "Express", "Hyper", "Hyper" >>
    [] c = h_Dept         -> << "Grocery", "Toys", "Grocery", "5" >>
    [] c = c_Campaign     -> << "Eid", "Eid", "DSF", "" >>
    [] c = h_Promo_Code   -> << "SAVE10", "", "Unknown", " " >>
    [] c = c_Age          -> << "17", "65", "", "old" >>
    [] c = h_customer_age -> << "-5", "0", "24", "25" >>
    [] c = h_age_years    -> << "34", "35", "44", "45" >>
    [] c = h_member_age   -> << "54", "55", "64", "18" >>
    [] c = c_Date         -> << "2023-12-31 00:00:00", "2024-01-15 00:00:00",
                                "2024-02-01 12:00:00", "junk" >>
    [] c = c_Nationality  -> << "UAE", "India", "UAE", "" >>
    [] c = c_Gender       -> << "F", "M", "F", "M" >>
    [] c = c_Category     -> << "Food", "Toys", "Food", "Misc" >>
    [] c = c_Product      -> << "P1", "P2", "P1", "P3" >>
    [] c = c_Quantity     -> << "5", "6", "7", "8" >>
    [] c = h_sales_units  -> << "3", "x", "", "4" >>
    [] c = h_order_date   -> << "2024-01-15 00:00:00", "junk", "",
                                "2024-02-01 12:00:00" >>

PoolSize == Len(samples(h_id))

Headers ==
  { << h_id >>,
    << h_customer_age >>,
    << h_age_years >>,
    << h_member_age >>,
    << h_rev_total, h_amount_usd >>,
    << h_amount_usd, h_rev_total >>,
    << h_Qty, c_Quantity >>,
    << h_sales_units >>,
    << h_order_date >>,
    << h_Invoice, h_amount_usd, c_City, c_Store_Format, h_Dept, c_Campaign,
       c_Nationality, c_Gender, c_Category, c_Product >>,
    << h_Invoice, h_amount_usd, h_Qty, c_City, c_Store_Format, h_Dept,
       c_Campaign, h_Promo_Code, c_Age, c_Date, c_Nationality, c_Gender,
       c_Category, c_Product >> }

pool_row(hdr, k) == [j \in 1..Len(hdr) |-> samples(hdr[j])[k]]

RowPicks == UNION { [1..n -> 1..PoolSize] : n \in 0..MaxRows }

Files ==
  { [cols |-> hdr, rows |-> [i \in 1..Len(pick) |-> pool_row(hdr, pick[i])]] :
      hdr \in Headers, pick \in RowPicks }

\* a table without columns stands for "no table": load_data returned None
\* (no file at the default path, nothing uploaded), or not computed yet
NoTable == [cols |-> << >>, rows |-> << >>]
NoFile == NoTable

\* np.random.randint(18, 65, n): the arrays the model lets randint return,
\* one constant array per age of RandomAges and one that alternates
RandomAges == {18, 64}
RandomDraws(n) ==
  { [i \in 1..n |-> a] : a \in RandomAges }
    \cup { [i \in 1..n |-> IF i % 2 = 1 THEN 18 ELSE 64] }
\* pd.Timestamp.now(): two instants on the last two calendar days
NowValues == { midnight(Len(DayStr) - 1) + 1, midnight(Len(DayStr)) + 1 }

\* ------------------------------------------------------------------------
\* Sidebar filters and the filter step
\* ------------------------------------------------------------------------
\* the values of column c, as a set (Series.unique())
unique(d, c) == { cell(d, i, c) : i \in 1..nrows(d) }

\* options of a sidebar selectbox: 'All' + the values other than 'Unknown'
options(d, c) == {"All"} \cup { x.v : x \in { y \in unique(d, c) : y.v # "Unknown" } }

dates_of(d) == { x.v : x \in { y \in unique(d, c_Date) : ~isna(y) } }
min_of(S) == CHOOSE x \in S : \A y \in S : x <= y
max_of(S) == CHOOSE x \in S : \A y \in S : x >= y

\* date_range: Python None, or the tuple of 0, 1 or 2 dates that
\* st.date_input returns while a range is being picked
NoRange == [none |-> TRUE, v |-> << >>]
Range(t) == [none |-> FALSE, v |-> t]
truthy(dr) == ~dr.none /\ Len(dr.v) > 0

date_choices(d) ==
  IF dates_of(d) = {} THEN {NoRange}
  ELSE LET lo == date_of(min_of(dates_of(d)))
           hi == date_of(max_of(dates_of(d)))
       IN  {Range(<< >>)} \cup { Range(<< a >>) : a \in lo..hi }
             \cup UNION { { Range(<< a, b >>) : b \in a..hi } : a \in lo..hi }

\* the date clause is applied: A `if date_range and len(date_range) == 2`,
\* B `if date_range`
date_clause(im, dr) == truthy(dr) /\ (im = "B" \/ Len(dr.v) = 2)

\* the mask with an exclusive upper date bound
keep_open_end(d, i, city, store, dated, dr) ==
  /\ city = "All" \/ cell(d, i, c_City) = StrV(city)
  /\ store = "All" \/ cell(d, i, c_Store_Format) = StrV(store)
  /\ dated => /\ cell(d, i, c_Date).k = "ts"
              /\ cell(d, i, c_Date).v >= midnight(dr.v[1])
              /\ cell(d, i, c_Date).v < midnight(dr.v[2])

\* the mask read one position off: row i is judged by the row after it
keep_shifted(d, i, city, store, dated, dr) ==
  LET n == (i % nrows(d)) + 1
  IN  /\ city = "All" \/ cell(d, n, c_City) = StrV(city)
      /\ store = "All" \/ cell(d, n, c_Store_Format) = StrV(store)
      /\ dated => /\ cell(d, n, c_Date).k = "ts"
                  /\ cell(d, n, c_Date).v >= midnight(dr.v[1])
                  /\ cell(d, n, c_Date).v <= midnight(dr.v[2])

\* the mask with the sentinel treated as a value: 'All' is compared with
\* the field like any other choice
keep_all_value(d, i, city, store, dated, dr) ==
  /\ cell(d, i, c_City) = StrV(city)
  /\ cell(d, i, c_Store_Format) = StrV(store)
  /\ dated => /\ cell(d, i, c_Date).k = "ts"
              /\ cell(d, i, c_Date).v >= midnight(dr.v[1])
              /\ cell(d, i, c_Date).v <= midnight(dr.v[2])

\* one row of mask: city clause, store clause, date clause
keep(d, i, city, store, dated, dr) ==
  /\ city = "All" \/ cell(d, i, c_City) = StrV(city)
  /\ store = "All" \/ cell(d, i, c_Store_Format) = StrV(store)
  /\ dated => /\ cell(d, i, c_Date).k = "ts"
              /\ cell(d, i, c_Date).v >= midnight(dr.v[1])
              /\ cell(d, i, c_Date).v <= midnight(dr.v[2])

\* d[mask]: the rows whose mask is True, in order
RECURSIVE select_rows(_, _, _)
select_rows(rows, m(_), i) ==
  IF i > Len(rows) THEN << >>
  ELSE IF m(i) THEN << rows[i] >> \o select_rows(rows, m, i + 1)
  ELSE select_rows(rows, m, i + 1)

\* "Apply filters": mask built clause by clause, then filtered = df[mask].copy();
\* B indexes date_range[1] of a one-date tuple
apply_filters(im, d, city, store, dr) ==
  IF date_clause(im, dr) /\ Len(dr.v) < 2 THEN [err |-> "IndexError", d |-> NoTable]
  ELSE [err |-> "none",
        d |-> [d EXCEPT !.rows =
                 select_rows(d.rows,
                             LAMBDA i : keep(d, i, city, store, date_clause(im, dr), dr),
                             1)]]

\* ------------------------------------------------------------------------
\* Aggregation: groupby / agg / sort_values / head
\* ------------------------------------------------------------------------
\* Python's order on the strings that grouping keys and labels take here
str_order ==
  << " ", "0", "1", "13-17", "18-24", "2", "25-34", "3", "35-44", "4",
     "45-54", "5", "5.0", "55-64", "65+", "AbuDhabi", "All", "DSF", "Dubai",
     "Eid", "Express", "F", "Food", "Grocery", "Hyper", "INV1", "INV2",
     "INV3", "India", "M", "Misc", "P1", "P2", "P3", "SAVE10", "Toys", "UAE",
     "Unknown", "nan" >>

str_rank(t) == CHOOSE i \in 1..Len(str_order) : str_order[i] = t

\* a mean is kept exact, as the pair (sum, count)
MeanV(total, n) == [k |-> "mean", v |-> << total, n >>]

\* x < y for two cells of one column
val_lt(x, y) ==
  CASE x.k = "str" /\ y.k = "str"   -> str_rank(x.v) < str_rank(y.v)
    [] x.k = "mean" /\ y.k = "mean" -> x.v[1] * y.v[2] < y.v[1] * x.v[2]
    [] OTHER                         -> x.v < y.v

\* lexicographic order on key tuples
RECURSIVE key_lt(_, _, _)
key_lt(a, b, n) ==
  IF n > Len(a) THEN FALSE
  ELSE IF a[n] # b[n] THEN val_lt(a[n], b[n])
  ELSE key_lt(a, b, n + 1)

key_of(d, i, keys) == [n \in 1..Len(keys) |-> cell(d, i, keys[n])]

\* grouping that also drops the placeholder key 'Unknown'
group_keys_known(d, keys) ==
  { key_of(d, i, keys) :
      i \in { r \in 1..nrows(d) :
                \A n \in 1..Len(keys) : /\ ~isna(cell(d, r, keys[n]))
                                          /\ cell(d, r, keys[n]) # StrV("Unknown") } }

\* groupby drops the rows that have NaN in a key (dropna=True)
group_keys(d, keys) ==
  { key_of(d, i, keys) :
      i \in { r \in 1..nrows(d) : \A n \in 1..Len(keys) : ~isna(cell(d, r, keys[n])) } }

\* the keys in ascending order (groupby sort=True)
RECURSIVE sorted_keys(_)
sorted_keys(K) ==
  IF K = {} THEN << >>
  ELSE LET m == CHOOSE x \in K : \A y \in K \ {x} : key_lt(x, y, 1)
       IN  << m >> \o sorted_keys(K \ {m})

group_rows(d, keys, key) == { i \in 1..nrows(d) : key_of(d, i, keys) = key }

\* sum of column c over the rows I, NaN skipped
RECURSIVE sum_rows(_, _, _, _)
sum_rows(d, I, c, i) ==
  IF i = 0 THEN 0
  ELSE sum_rows(d, I, c, i - 1)
         + (IF i \in I /\ ~isna(cell(d, i, c))
              THEN (IF cell(d, i, c).k = "bool"
                      THEN (IF cell(d, i, c).v THEN 1 ELSE 0)
                      ELSE cell(d, i, c).v)
              ELSE 0)

count_rows(d, I, c) == Cardinality({ i \in I : ~isna(cell(d, i, c)) })

\* the aggregation with the mean taken per distinct transaction
agg_value_per_txn(d, I, a) ==
  CASE a.fn = "sum"     -> IntV(sum_rows(d, I, a.col, nrows(d)))
    [] a.fn = "nunique" ->
         IntV(Cardinality({ cell(d, i, a.col).v :
                              i \in { j \in I : ~isna(cell(d, j, a.col)) } }))
    [] a.fn = "count"   -> IntV(count_rows(d, I, a.col))
    [] a.fn = "mean"    ->
         MeanV(sum_rows(d, I, a.col, nrows(d)),
               Cardinality({ cell(d, i, c_Transaction).v :
                               i \in { j \in I : ~isna(cell(d, j, c_Transaction)) } }))

\* one named aggregation  name=(col, fn)  over the rows I
agg_value(d, I, a) ==
  CASE a.fn = "sum"     -> IntV(sum_rows(d, I, a.col, nrows(d)))
    [] a.fn = "nunique" ->
         IntV(Cardinality({ cell(d, i, a.col).v :
                              i \in { j \in I : ~isna(cell(d, j, a.col)) } }))
    [] a.fn = "count"   -> IntV(count_rows(d, I, a.col))
    [] a.fn = "mean"    -> MeanV(sum_rows(d, I, a.col, nrows(d)), count_rows(d, I, a.col))

Ok(d) == [err |-> "none", d |-> d]
Raise(e) == [err |-> e, d |-> NoTable]

\* d.groupby(keys).agg(name=(col, fn), ...).reset_index()
groupby_agg(d, keys, aggs) ==
  IF \E n \in 1..Len(keys) : ~has_col(d, keys[n]) THEN Raise("KeyError")
  ELSE IF \E n \in 1..Len(aggs) : ~has_col(d, aggs[n].col) THEN Raise("KeyError")
  ELSE IF \E n \in 1..Len(keys) : is_dup(d, keys[n]) THEN Raise("ValueError")
  ELSE LET ks == sorted_keys(group_keys(d, keys))
       IN  Ok([cols |-> keys \o [n \in 1..Len(aggs) |-> aggs[n].name],
               rows |-> [g \in 1..Len(ks) |->
                          ks[g] \o [n \in 1..Len(aggs) |->
                                      agg_value(d, group_rows(d, keys, ks[g]), aggs[n])]]])

\* insertion of row r into rows sorted by column position j; equal values
\* keep their earlier order (the order a stable sort gives)
RECURSIVE insert_sorted(_, _, _, _)
insert_sorted(rows, r, j, asc) ==
  IF rows = << >> THEN << r >>
  ELSE LET last == rows[Len(rows)]
           before == IF asc THEN val_lt(r[j], last[j]) ELSE val_lt(last[j], r[j])
       IN  IF before
             THEN Append(insert_sorted(SubSeq(rows, 1, Len(rows) - 1), r, j, asc), last)
             ELSE Append(rows, r)

RECURSIVE sort_rows(_, _, _, _)
sort_rows(rows, n, j, asc) ==
  IF n = 0 THEN << >>
  ELSE insert_sorted(sort_rows(rows, n - 1, j, asc), rows[n], j, asc)

\* t.sort_values(by, ascending=asc)
sort_values(t, by, asc) ==
  IF ~has_col(t, by) THEN Raise("KeyError")
  ELSE Ok([t EXCEPT !.rows = sort_rows(t.rows, Len(t.rows), at(t, by), asc)])

\* t.head(n)
head(t, n) == [t EXCEPT !.rows = SubSeq(t.rows, 1, IF n < Len(t.rows) THEN n ELSE Len(t.rows))]

\* column names of the aggregates
n_Sales == <<"S","a","l","e","s">>
n_Qty == <<"Q","t","y">>
n_Txns == <<"T","x","n","s">>
n_AvgPrice == <<"A","v","g","P","r","i","c","e">>
n_TotalSales == <<"T","o","t","a","l","S","a","l","e","s">>
n_Transactions == <<"T","r","a","n","s","a","c","t","i","o","n","s">>
n_AvgBasket == <<"A","v","g","B","a","s","k","e","t">>

top_aggs_A ==
  << [name |-> n_Sales,    col |-> c_SalesAmount, fn |-> "sum"],
     [name |-> n_Qty,      col |-> c_Quantity,    fn |-> "sum"],
     [name |-> n_Txns,     col |-> c_Transaction, fn |-> "nunique"],
     [name |-> n_AvgPrice, col |-> c_SalesAmount, fn |-> "mean"] >>

top_aggs_B ==
  << [name |-> n_TotalSales,   col |-> c_SalesAmount, fn |-> "sum"],
     [name |-> c_Quantity,     col |-> c_Quantity,    fn |-> "sum"],
     [name |-> n_Transactions, col |-> c_Transaction, fn |-> "nunique"],
     [name |-> n_AvgBasket,    col |-> c_SalesAmount, fn |-> "mean"] >>

\* A: get_top_items(df, col, n=5): empty frame for a missing column or
\* an empty df, else groups sorted by 'Sales' descending, first n
get_top_items_A(d, col, n) ==
  IF ~has_col(d, col) \/ nrows(d) = 0 THEN Ok(NoTable)
  ELSE LET g == groupby_agg(d, << col >>, top_aggs_A)
       IN  IF g.err # "none" THEN g
           ELSE LET t == sort_values(g.d, n_Sales, FALSE)
                IN  IF t.err # "none" THEN t ELSE Ok(head(t.d, n))

\* B: get_top_items(df, column, n=10, sort_by='SalesAmount'): the sort
\* column is looked up among the columns of the aggregate
get_top_items_B(d, column, n, sort_by) ==
  IF ~has_col(d, column) THEN Ok(NoTable)
  ELSE LET g == groupby_agg(d, << column >>, top_aggs_B)
       IN  IF g.err # "none" THEN g
           ELSE LET t == sort_values(g.d, sort_by, FALSE)
                IN  IF t.err # "none" THEN t ELSE Ok(head(t.d, n))

\* A, City Strategy: city_data.groupby(col)['SalesAmount'].sum().nsmallest(n)
\*    .reset_index(): the n smallest sums in ascending order
bottom_items_A(d, col, n) ==
  LET g == groupby_agg(d, << col >>,
                       << [name |-> c_SalesAmount, col |-> c_SalesAmount, fn |-> "sum"] >>)
  IN  IF g.err # "none" THEN g
      ELSE LET t == sort_values(g.d, c_SalesAmount, TRUE)
           IN  IF t.err # "none" THEN t ELSE Ok(head(t.d, n))

\* B, City Analysis: get_top_items(city_data, col, n=n)
\*    .sort_values('TotalSales', ascending=True)
bottom_items_B(d, col, n) ==
  LET t == get_top_items_B(d, col, n, c_SalesAmount)
  IN  IF t.err # "none" THEN t ELSE sort_values(t.d, n_TotalSales, TRUE)

\* the distinct non-null Transaction values among the rows I of d
txns_of(d, I) ==
  { cell(d, i, c_Transaction).v : i \in { j \in I : ~isna(cell(d, j, c_Transaction)) } }

\* "Avg Basket" of the executive page (both files):
\*   d.groupby('Transaction')['SalesAmount'].sum().mean() if total_txns > 0 else 0
\* over the rows I of d, as the exact pair (sum, count)
avg_basket(d, I) ==
  IF txns_of(d, I) = {} THEN << 0, 1 >>
  ELSE << sum_rows(d, { i \in I : ~isna(cell(d, i, c_Transaction)) }, c_SalesAmount, nrows(d)),
          Cardinality(txns_of(d, I)) >>

\* A, Store Format: store_perf['AvgBasket'] = Sales / Txns.replace(0, 1)
store_avg_basket_A(d, I) ==
  << sum_rows(d, I, c_SalesAmount, nrows(d)),
     IF txns_of(d, I) = {} THEN 1 ELSE Cardinality(txns_of(d, I)) >>

\* B, Store Format Analysis: AvgBasket=('SalesAmount', 'mean')
store_avg_basket_B(d, I) ==
  << sum_rows(d, I, c_SalesAmount, nrows(d)), count_rows(d, I, c_SalesAmount) >>

\* ------------------------------------------------------------------------
\* Report pages.  A page is modelled by the statements that can end it:
\* a column lookup (KeyError), the first/last row or the most frequent value
\* of an empty result (IndexError), idxmax of an empty result (ValueError),
\* st.stop().  The result is "ok", "stop", or the first exception raised.
\* ------------------------------------------------------------------------
\* file A, lines 260-268 (its last two pages lie beyond the end of the file)
Pages_A == {"exec", "city", "dept", "campaign", "store"}
\* file B, lines 261-269
Pages_B == {"exec", "city", "dept", "campaign", "store", "people", "strategy"}

\* options of the city selectbox of the city page; "" is the None that a
\* selectbox without options returns
city_choices(d) ==
  IF options(d, c_City) = {"All"} THEN {""} ELSE options(d, c_City) \ {"All"}

\* d[d[c] == v]
where_eq(d, c, v) ==
  [d EXCEPT !.rows = select_rows(d.rows, LAMBDA i : cell(d, i, c) = StrV(v), 1)]

\* Series.value_counts().index[0]: the most frequent value, the one seen
\* first among equally frequent ones
top_value(d, c) ==
  LET n(x) == Cardinality({ i \in 1..nrows(d) : cell(d, i, c) = x })
      best == { x \in unique(d, c) : \A y \in unique(d, c) : n(x) >= n(y) }
      first == CHOOSE i \in 1..nrows(d) :
                 /\ cell(d, i, c) \in best
                 /\ \A j \in 1..(i - 1) : cell(d, j, c) \notin best
  IN  cell(d, first, c)

\* A "Executive Dashboard" and B "Executive Summary": sums and groupbys
\* on City, (Store_Format,) Department, Campaign
page_exec(f) ==
  IF ~has_col(f, c_Department) THEN "KeyError"
  ELSE IF ~has_col(f, c_Campaign) THEN "KeyError"
  ELSE "ok"

\* A "City Strategy" (lines 362-434)
city_data_A(f, city, ac) == IF city = "All" THEN where_eq(f, c_City, ac) ELSE f

page_city_A(f, city, ac) ==
  LET cd == city_data_A(f, city, ac)
  IN  IF nrows(cd) = 0 THEN "stop"
      ELSE IF ~has_col(cd, c_Product) THEN "KeyError"
      ELSE IF get_top_items_A(cd, c_Department, 5).err # "none"
        THEN get_top_items_A(cd, c_Department, 5).err
      ELSE IF ~has_col(cd, c_Department) THEN "KeyError"
      ELSE "ok"

\* B "City Analysis" (lines 348-449): works on df, not on filtered
city_data_B(d, ac) == where_eq(d, c_City, ac)

page_city_B(d, ac) ==
  LET cd   == city_data_B(d, ac)
      top1 == get_top_items_B(cd, c_Department, 3, c_SalesAmount)
      top2 == get_top_items_B(cd, c_Category, 3, c_SalesAmount)
      top3 == get_top_items_B(cd, c_Campaign, 3, c_SalesAmount)
  IN  IF nrows(cd) = 0 THEN "stop"
      ELSE IF top1.err # "none" THEN top1.err
      ELSE IF top2.err # "none" THEN top2.err
      ELSE IF top3.err # "none" THEN top3.err
      ELSE IF sort_values(top1.d, n_TotalSales, TRUE).err # "none"
        THEN sort_values(top1.d, n_TotalSales, TRUE).err
      ELSE IF sort_values(top2.d, n_TotalSales, TRUE).err # "none"
        THEN sort_values(top2.d, n_TotalSales, TRUE).err
      ELSE IF sort_values(top3.d, n_TotalSales, TRUE).err # "none"
        THEN sort_values(top3.d, n_TotalSales, TRUE).err
      ELSE IF ~has_col(cd, c_Nationality) THEN "KeyError"
      ELSE IF ~has_col(cd, c_Campaign) THEN "KeyError"
      ELSE "ok"

\* A "Department Insights" (lines 437-502); filtered is not empty here
page_dept_A(f) ==
  IF ~has_col(f, c_Department) THEN "KeyError"
  ELSE IF ~has_col(f, c_Campaign) THEN "KeyError"
  ELSE "ok"

\* B "Department Analysis" (lines 452-544): high_revenue_low_qty.iloc[0]
\* (line 486) comes before the Department x Campaign groupby (line 509)
page_dept_B(f) ==
  IF ~has_col(f, c_Department) THEN "KeyError"
  ELSE IF nrows(f) = 0 THEN "IndexError"
  ELSE IF ~has_col(f, c_Campaign) THEN "KeyError"
  ELSE "ok"

\* A "Campaign ROI" (lines 505-572)
page_campaign_A(f) ==
  IF ~has_col(f, c_Campaign) THEN "KeyError" ELSE "ok"

\* B "Campaign & Channels" (lines 547-644), as the set of ways it can
\* end.  On an empty aggregate the row-wise apply (line 562) returns a
\* frame; storing it in the single column 'Performance' is a ValueError
\* in pandas versions that reject it, and otherwise the page goes on to
\* the Campaign x Department groupby and to campaign_perf.iloc[0].
page_campaign_B(f) ==
  IF ~has_col(f, c_Campaign) THEN {"KeyError"}
  ELSE IF nrows(f) = 0
    THEN {"ValueError", IF ~has_col(f, c_Department) THEN "KeyError" ELSE "IndexError"}
  ELSE IF ~has_col(f, c_Department) THEN {"KeyError"}
  ELSE {"ok"}

\* A "Store Format" (lines 575-633)
page_store_A(f) == "ok"

\* B "Store Format Analysis" (lines 647-763)
page_store_B(f) ==
  IF nrows(f) > 0 /\ ~has_col(f, c_Department) THEN "KeyError"
  ELSE IF ~has_col(f, c_Campaign) THEN "KeyError"
  ELSE IF nrows(f) = 0 THEN "IndexError"
  ELSE IF ~has_col(f, c_Department) THEN "KeyError"
  ELSE "ok"

\* B "People Demographics" (lines 765-924): top_store_persona is assigned
\* only when the persona subset has rows, and read at line 907
persona_data(f) ==
  [f EXCEPT !.rows =
     select_rows(f.rows,
                 LAMBDA i : /\ cell(f, i, c_AgeGroup) = top_value(f, c_AgeGroup)
                            /\ cell(f, i, c_Nationality) = top_value(f, c_Nationality)
                            /\ cell(f, i, c_Gender) = top_value(f, c_Gender),
                 1)]

page_people_B(f) ==
  IF ~has_col(f, c_Department) THEN "KeyError"
  ELSE IF ~has_col(f, c_Nationality) THEN "KeyError"
  ELSE IF ~has_col(f, c_Gender) THEN "KeyError"
  ELSE IF nrows(f) = 0 THEN "IndexError"
  ELSE IF nrows(persona_data(f)) = 0 THEN "NameError"
  ELSE "ok"

\* B "Strategic Recommendations" (lines 927-1054)
page_strategy_B(f) ==
  IF nrows(f) = 0 THEN "ValueError"
  ELSE IF ~has_col(f, c_Department) THEN "KeyError"
  ELSE IF ~has_col(f, c_Campaign) THEN "KeyError"
  ELSE IF ~has_col(f, c_Nationality) THEN "KeyError"
  ELSE "ok"

\* the ways page p can end
render(im, p, d, f, city, ac) ==
  CASE p = "exec"     -> {page_exec(f)}
    [] p = "city"     -> {IF im = "A" THEN page_city_A(f, city, ac) ELSE page_city_B(d, ac)}
    [] p = "dept"     -> {IF im = "A" THEN page_dept_A(f) ELSE page_dept_B(f)}
    [] p = "campaign" -> IF im = "A" THEN {page_campaign_A(f)} ELSE page_campaign_B(f)
    [] p = "store"    -> {IF im = "A" THEN page_store_A(f) ELSE page_store_B(f)}
    [] p = "people"   -> {page_people_B(f)}
    [] p = "strategy" -> {page_strategy_B(f)}

\* ------------------------------------------------------------------------
\* The script as a state machine
\* ------------------------------------------------------------------------
VARIABLES
  impl,            \* "A" or "B": which of the two scripts runs
  file,            \* the CSV at the default path / uploaded, or NoFile
  pc,              \* position of the current run in the script
  raw,             \* raw_data (A) / raw (B)
  mapping,         \* detect_columns(raw)
  df,              \* the canonical table of this run
  prev_df,         \* the canonical table of the previous run, kept until
                   \* the sidebar of this run is drawn
  selected_city, selected_store, date_range,
  filtered,        \* df[mask].copy()
  page,            \* the view picked in the navigation radio, "" before
  analysis_city,   \* the city picked on the city page, "" for None
  outcome          \* "none", "ok", "stop" (st.stop()) or the exception raised

vars == << impl, file, pc, raw, mapping, df, prev_df, selected_city,
           selected_store, date_range, filtered, page, analysis_city,
           outcome >>

NoMapping == [r \in RoleSet |-> None]

Init ==
  /\ impl \in {"A", "B"}
  /\ file \in Files \cup {NoFile}
  /\ pc = "load"
  /\ raw = NoTable
  /\ mapping = NoMapping
  /\ df = NoTable
  /\ prev_df = NoTable
  /\ selected_city = "All"
  /\ selected_store = "All"
  /\ date_range = NoRange
  /\ filtered = NoTable
  /\ page = ""
  /\ analysis_city = ""
  /\ outcome = "none"

\* the load step without the check for a missing table
Load_unchecked ==
  /\ pc = "load"
  /\ pc' = "detect"
  /\ raw' = IF file = NoFile THEN NoTable ELSE read_csv(file)
  /\ UNCHANGED outcome
  /\ UNCHANGED << impl, file, mapping, df, prev_df, selected_city,
                  selected_store, date_range, filtered, page, analysis_city >>

\* raw = load(DEFAULT_PATH) or the upload; without a table: st.error, st.stop
Load ==
  /\ pc = "load"
  /\ IF file = NoFile
       THEN /\ pc' = "end"
            /\ outcome' = "stop"
            /\ raw' = NoTable
       ELSE /\ pc' = "detect"
            /\ raw' = read_csv(file)
            /\ UNCHANGED outcome
  /\ UNCHANGED << impl, file, mapping, df, prev_df, selected_city,
                  selected_store, date_range, filtered, page, analysis_city >>

\* mapping = detect_columns(raw)
Detect ==
  /\ pc = "detect"
  /\ mapping' = detect_columns(impl, raw.cols)
  /\ pc' = "prepare"
  /\ UNCHANGED << impl, file, raw, df, prev_df, selected_city, selected_store,
                  date_range, filtered, page, analysis_city, outcome >>

\* df = prepare_data(raw, mapping) / prepare_dataframe(raw, mapping)
Prepare ==
  /\ pc = "prepare"
  /\ \E rnd \in RandomDraws(nrows(raw)), now \in NowValues :
       LET res == IF impl = "A" THEN prepare_data(raw, mapping, rnd, now)
                  ELSE prepare_dataframe(raw, mapping, rnd, now)
       IN  IF res.err = "none"
             THEN /\ df' = res.d
                  /\ pc' = "sidebar"
                  /\ UNCHANGED outcome
             ELSE /\ df' = NoTable
                  /\ pc' = "end"
                  /\ outcome' = res.err
  /\ UNCHANGED << impl, file, raw, mapping, prev_df, selected_city,
                  selected_store, date_range, filtered, page, analysis_city >>

\* "GLOBAL FILTERS": the selectboxes read df['City'] and df['Store_Format'];
\* the user's selections are the inputs of this step
Sidebar ==
  /\ pc = "sidebar"
  /\ prev_df' = NoTable
  /\ IF ~has_col(df, c_City) \/ ~has_col(df, c_Store_Format)
       THEN /\ pc' = "end"
            /\ outcome' = "KeyError"
            /\ UNCHANGED << selected_city, selected_store, date_range >>
       ELSE /\ selected_city' \in options(df, c_City)
            /\ selected_store' \in options(df, c_Store_Format)
            /\ date_range' \in date_choices(df)
            /\ pc' = "filter"
            /\ UNCHANGED outcome
  /\ UNCHANGED << impl, file, raw, mapping, df, filtered, page, analysis_city >>

\* the filter step written in place: df = df[mask] and filtered = df
ApplyFilters_inplace ==
  /\ pc = "filter"
  /\ LET res == apply_filters(impl, df, selected_city, selected_store, date_range)
     IN  IF res.err # "none"
           THEN /\ filtered' = NoTable
                /\ pc' = "end"
                /\ outcome' = res.err
                /\ UNCHANGED df
           ELSE /\ filtered' = res.d
                /\ df' = res.d
                /\ IF impl = "A" /\ nrows(res.d) = 0
                     THEN pc' = "end" /\ outcome' = "stop"
                     ELSE pc' = "page" /\ UNCHANGED outcome
  /\ UNCHANGED << impl, file, raw, mapping, prev_df, selected_city,
                  selected_store, date_range, page, analysis_city >>

\* "Apply filters"; A then stops with a warning when nothing is left
ApplyFilters ==
  /\ pc = "filter"
  /\ LET res == apply_filters(impl, df, selected_city, selected_store, date_range)
     IN  IF res.err # "none"
           THEN /\ filtered' = NoTable
                /\ pc' = "end"
                /\ outcome' = res.err
           ELSE /\ filtered' = res.d
                /\ IF impl = "A" /\ nrows(res.d) = 0
                     THEN pc' = "end" /\ outcome' = "stop"
                     ELSE pc' = "page" /\ UNCHANGED outcome
  /\ UNCHANGED << impl, file, raw, mapping, df, prev_df, selected_city,
                  selected_store, date_range, page, analysis_city >>

\* the navigation radio picks a page, which is then rendered
Render ==
  /\ pc = "page"
  /\ \E p \in (IF impl = "A" THEN Pages_A ELSE Pages_B), ac \in city_choices(df) :
       /\ page' = p
       /\ analysis_city' = IF p = "city" THEN ac ELSE ""
       /\ outcome' \in render(impl, p, df, filtered, selected_city, ac)
  /\ pc' = "end"
  /\ UNCHANGED << impl, file, raw, mapping, df, prev_df, selected_city,
                  selected_store, date_range, filtered >>

\* any interaction reruns the script from the top; load is cached, the
\* normaliser is not
Rerun ==
  /\ pc = "end"
  /\ pc' = "load"
  /\ prev_df' = df
  /\ raw' = NoTable
  /\ mapping' = NoMapping
  /\ df' = NoTable
  /\ selected_city' = "All"
  /\ selected_store' = "All"
  /\ date_range' = NoRange
  /\ filtered' = NoTable
  /\ page' = ""
  /\ analysis_city' = ""
  /\ outcome' = "none"
  /\ UNCHANGED << impl, file >>

Next == Load \/ Detect \/ Prepare \/ Sidebar \/ ApplyFilters \/ Render \/ Rerun

Spec == Init /\ [][Next]_vars

\* ------------------------------------------------------------------------
\* Properties
\* ------------------------------------------------------------------------
CanonFields ==
  { c_SalesAmount, c_Quantity, c_Transaction, c_Age, c_AgeGroup, c_Department,
    c_Store_Format, c_Category, c_Product, c_Campaign, c_Channel, c_PromoCode,
    c_Gender, c_Nationality, c_City, c_Zone, c_CustomerType, c_Date,
    c_PromoUsed }

\* the normaliser has returned a table in this run
Normalized == pc = "sidebar"

\* the filter step has produced the working subset of this run (in A the
\* script may then have stopped on the empty subset)
FilterDone ==
  \/ pc = "page"
  \/ pc = "end" /\ page = "" /\ outcome = "stop" /\ df # NoTable

\* C1: after normalisation every canonical field is a column of the table
\* and holds a non-null value on every row, whatever the raw columns were.
C1_AllFieldsPresent ==
  Normalized =>
    \A c \in CanonFields :
      /\ has_col(df, c)
      /\ \A i \in 1..nrows(df) : ~isna(cell(df, i, c))

\* C2: two normaliser runs on the same raw table and mapping give the same
\* canonical table (the table of a rerun equals the table of the run before).
C2_Deterministic ==
  (Normalized /\ prev_df # NoTable) => df = prev_df

\* C3: each role is mapped to the column matched by the earliest synonym of
\* its list that occurs in any column name (case-insensitively), the first
\* such column in column order; unmapped when no synonym occurs; for
\* ["rev_total", "amount_usd"] the amount role is "amount_usd".
C3_FirstSynonymWins ==
  pc = "prepare" =>
    /\ \A r \in RoleSet :
         LET T    == terms_of(impl)[r]
             hits == { i \in 1..Len(T) :
                         \E j \in 1..Len(raw.cols) : str_in(T[i], lower(raw.cols[j])) }
         IN  IF hits = {} THEN mapping[r] = None
             ELSE LET t  == T[min_of(hits)]
                      js == { j \in 1..Len(raw.cols) : str_in(t, lower(raw.cols[j])) }
                  IN  mapping[r] = raw.cols[min_of(js)]
    /\ raw.cols = << h_rev_total, h_amount_usd >> => mapping["amount"] = h_amount_usd

C3_Witness ==
  /\ pc = "prepare"
  /\ raw.cols = << h_rev_total, h_amount_usd >>
  /\ mapping["amount"] = h_amount_usd

AgeLabels ==
  { "Unknown", "13-17", "18-24", "25-34", "35-44", "45-54", "55-64", "65+" }

age_band(a) ==
  CASE a < 18             -> "13-17"
    [] a >= 18 /\ a < 25 -> "18-24"
    [] a >= 25 /\ a < 35 -> "25-34"
    [] a >= 35 /\ a < 45 -> "35-44"
    [] a >= 45 /\ a < 55 -> "45-54"
    [] a >= 55 /\ a < 65 -> "55-64"
    [] a >= 65            -> "65+"

\* C4: on every canonical row AgeGroup is one of the 8 labels, "Unknown"
\* for a null Age and otherwise the band that contains Age.
C4_AgeGroupBands ==
  Normalized =>
    \A i \in 1..nrows(df) :
      LET age == cell(df, i, c_Age)
          grp == cell(df, i, c_AgeGroup)
      IN  /\ grp.k = "str"
          /\ grp.v \in AgeLabels
          /\ grp.v = IF isna(age) THEN "Unknown" ELSE age_band(age.v)

C4_Witness ==
  /\ Normalized
  /\ \E i \in 1..nrows(df), j \in 1..nrows(df) :
       /\ cell(df, i, c_Age) = IntV(25) /\ cell(df, i, c_AgeGroup) = StrV("25-34")
       /\ cell(df, j, c_Age) = IntV(24) /\ cell(df, j, c_AgeGroup) = StrV("18-24")

\* get_top_items called with the defaults of its file
get_top_items(im, d, col) ==
  IF im = "A" THEN get_top_items_A(d, col, 5)
  ELSE get_top_items_B(d, col, 10, c_SalesAmount)

\* C5: on empty input the normaliser, the filter step and get_top_items
\* finish without an exception and return zero rows.
C5_EmptyInputSafe ==
  /\ (pc = "end" /\ raw # NoTable /\ nrows(raw) = 0) => df # NoTable /\ nrows(df) = 0
  /\ (FilterDone /\ nrows(df) = 0) => nrows(filtered) = 0
  /\ (FilterDone /\ nrows(filtered) = 0) =>
       \A c \in {c_City, c_Department, c_Category, c_Campaign} :
         /\ get_top_items(impl, filtered, c).err = "none"
         /\ nrows(get_top_items(impl, filtered, c).d) = 0

\* C6: a page rendered on an empty working subset ends normally or by
\* st.stop(), never by an exception.
C6_EmptySubsetPagesSafe ==
  (pc = "end" /\ df # NoTable /\ filtered # NoTable /\ nrows(filtered) = 0) =>
    outcome \in {"ok", "stop"}

row_in_range(x, dr) ==
  /\ x.k = "ts"
  /\ midnight(dr.v[1]) <= x.v
  /\ x.v <= midnight(dr.v[2])

\* C7: with a date range [start, end] the working subset is exactly the
\* rows (that pass the city and store clauses) whose Date is not null and
\* lies between start and end, both bounds included.
C7_DateRangeInclusive ==
  (FilterDone /\ ~date_range.none /\ Len(date_range.v) = 2) =>
    filtered.rows =
      SelectSeq(df.rows,
                LAMBDA r : /\ selected_city = "All" \/ r[at(df, c_City)].v = selected_city
                           /\ selected_store = "All"
                                \/ r[at(df, c_Store_Format)].v = selected_store
                           /\ row_in_range(r[at(df, c_Date)], date_range))

C7_Witness ==
  /\ FilterDone
  /\ ~date_range.none /\ Len(date_range.v) = 2
  /\ nrows(df) = 2 /\ nrows(filtered) = 1
  /\ \E i \in 1..nrows(df) : isna(cell(df, i, c_Date))
  /\ cell(filtered, 1, c_Date) = TsV(midnight(date_range.v[2]))

\* C8: applying the chosen filters to the working subset gives the working
\* subset again.
C8_FilterIdempotent ==
  FilterDone =>
    apply_filters(impl, filtered, selected_city, selected_store, date_range)
      = Ok(filtered)

C8_Witness ==
  /\ FilterDone
  /\ selected_city # "All"
  /\ nrows(filtered) > 0
  /\ nrows(filtered) < nrows(df)

GroupKeys ==
  { << c >> : c \in { text_cols[n] : n \in 1..Len(text_cols) } \cup {c_AgeGroup} }
    \cup { << c_Department, c_Campaign >>, << c_City, c_Campaign >>,
           << c_Campaign, c_AgeGroup >>, << c_City, c_Store_Format >> }

\* C9: for every grouping key (or key tuple) whose columns exist, the group
\* totals add up to the total of the subset, the group sizes add up to its
\* row count, and every row (also one keyed "Unknown") has its group.
C9_Conservation ==
  pc = "page" =>
    \A K \in GroupKeys :
      LET g == groupby_agg(filtered, K,
                 << [name |-> n_TotalSales, col |-> c_SalesAmount, fn |-> "sum"],
                    [name |-> n_Txns,       col |-> c_SalesAmount, fn |-> "count"] >>)
      IN  g.err = "none" =>
            /\ sum_rows(g.d, 1..nrows(g.d), n_TotalSales, nrows(g.d))
                 = sum_rows(filtered, 1..nrows(filtered), c_SalesAmount, nrows(filtered))
            /\ sum_rows(g.d, 1..nrows(g.d), n_Txns, nrows(g.d)) = nrows(filtered)
            /\ \A i \in 1..nrows(filtered) :
                 \E r \in 1..nrows(g.d) : key_of(g.d, r, K) = key_of(filtered, i, K)

C9_Witness ==
  /\ pc = "page"
  /\ \E i \in 1..nrows(filtered), j \in 1..nrows(filtered) :
       /\ cell(filtered, i, c_City) = StrV("Unknown")
       /\ cell(filtered, j, c_City) = StrV("Dubai")
       /\ cell(filtered, i, c_SalesAmount).v + cell(filtered, j, c_SalesAmount).v > 0

\* C10: PromoUsed is true exactly on the rows whose source promo code is
\* not null, not empty and not "Unknown"; false everywhere when no promo
\* column is mapped.
C10_PromoUsedIff ==
  Normalized =>
    \A i \in 1..nrows(df) :
      cell(df, i, c_PromoUsed) =
        BoolV(IF mapping["promo"] = None THEN FALSE
              ELSE LET src == cell(raw, i, mapping["promo"])
                   IN  ~isna(src) /\ astype_str(src).v \notin {"", "Unknown"})

\* the role's column is the one renamed to the role's canonical name: no
\* later role resolved to the same source column
renamed(r) ==
  /\ mapping[r] # None
  /\ \A q \in RoleSet : mapping[q] = mapping[r] => canon_of[q] = canon_of[r]

\* the number a text cell of the file spells, 0 for any other text
spelled(t) ==
  IF \E n \in NumDomain : t \in {int_str(n), flt_str(n)}
    THEN CHOOSE n \in NumDomain : t \in {int_str(n), flt_str(n)}
  ELSE 0

\* the text of file row i in the source column of role r
source_text(r, i) == file.rows[i][min_of(pos_of(file, mapping[r]))]

city_total(v) ==
  LET rows == { i \in 1..nrows(df) : cell(df, i, c_City) = StrV(v) }
  IN  sum_rows(df, rows, c_SalesAmount, nrows(df))

\* the sum of the amounts spelled on the first i file rows whose City text is v
RECURSIVE spelled_total(_, _)
spelled_total(v, i) ==
  IF i = 0 THEN 0
  ELSE spelled_total(v, i - 1)
         + (IF source_text("city", i) = v THEN spelled(source_text("amount", i)) ELSE 0)

\* C11: SalesAmount is 1.0 on every row when the amount role is unmapped;
\* when it is mapped, a cell that spells a number keeps that number and any
\* other cell (missing, text) becomes 0.0; amounts "100"/"bad" in Dubai and
\* "50" in AbuDhabi total 100 for Dubai and 50 for AbuDhabi.
C11_SalesAmountDefaulting ==
  Normalized =>
    /\ mapping["amount"] = None =>
         \A i \in 1..nrows(df) : cell(df, i, c_SalesAmount) = FltV(1)
    /\ renamed("amount") =>
         \A i \in 1..nrows(df) :
           /\ is_num(cell(df, i, c_SalesAmount))
           /\ cell(df, i, c_SalesAmount).v = spelled(source_text("amount", i))
    /\ (renamed("amount") /\ renamed("city")) =>
         \A v \in {"Dubai", "AbuDhabi"} : city_total(v) = spelled_total(v, nrows(df))

C11_Witness ==
  /\ Normalized
  /\ renamed("amount") /\ renamed("city")
  /\ nrows(df) = 2
  /\ source_text("amount", 1) = "100" /\ cell(df, 1, c_SalesAmount).v = 100
  /\ source_text("amount", 2) = "bad" /\ cell(df, 2, c_SalesAmount).v = 0
  /\ city_total("Dubai") = 100

\* C12: with no transaction role mapped, row i (counted from 0) has the
\* Transaction string of i, so the values are strings, pairwise distinct,
\* and the distinct transaction count of the table is its row count.
C12_TransactionIndexStrings ==
  (Normalized /\ mapping["transaction"] = None) =>
    /\ \A i \in 1..nrows(df) : cell(df, i, c_Transaction) = StrV(int_str(i - 1))
    /\ Cardinality({ cell(df, i, c_Transaction) : i \in 1..nrows(df) }) = nrows(df)

\* the roles of the 12 text fields
TextRoles ==
  { "department", "store_format", "category", "product", "campaign", "channel",
    "promo", "gender", "nationality", "city", "zone", "customer_type" }

\* the text of a value of the raw table, as Python's str() spells it
text_of(x) ==
  CASE x.k = "str"   -> x.v
    [] x.k = "int"   -> ToString(x.v)
    [] x.k = "float" -> ToString(x.v) \o ".0"
    [] x.k = "bool"  -> IF x.v THEN "True" ELSE "False"

\* C13: in every text field whose role is mapped each cell is a string,
\* "Unknown" where the raw cell is null and the text of the raw value
\* otherwise (a numeric code becomes its text); no null is left.
C13_TextFields ==
  Normalized =>
    \A r \in TextRoles :
      renamed(r) =>
        \A i \in 1..nrows(df) :
          LET src == cell(raw, i, mapping[r])
              x   == cell(df, i, canon_of[r])
          IN  /\ x.k = "str"
              /\ x.v = IF isna(src) THEN "Unknown" ELSE text_of(src)

C13_Witness ==
  /\ Normalized
  /\ renamed("department") /\ renamed("city")
  /\ \E i \in 1..nrows(df) :
       /\ cell(raw, i, mapping["department"]) = IntV(5)
       /\ cell(df, i, c_Department) = StrV("5")
       /\ isna(cell(raw, i, mapping["city"]))
       /\ cell(df, i, c_City) = StrV("Unknown")

\* the name of the total-sales column of the helper's result
total_name(im) == IF im = "A" THEN n_Sales ELSE n_TotalSales

\* rows g and g + 1 of a result are in descending order of the total, and
\* in ascending order of the group key when the totals are equal
in_top_order(t, key, total, g) ==
  \/ cell(t, g, total).v > cell(t, g + 1, total).v
  \/ /\ cell(t, g, total).v = cell(t, g + 1, total).v
     /\ str_rank(cell(t, g, key).v) < str_rank(cell(t, g + 1, key).v)

\* C14: get_top_items called without a sort field returns the groups in
\* descending order of their total sales, equal totals in ascending order
\* of the group key.
C14_TopItemsDescending ==
  pc = "page" =>
    \A c \in {c_City, c_Department, c_Category, c_Campaign} :
      (has_col(filtered, c) /\ nrows(filtered) > 0) =>
        LET t == get_top_items(impl, filtered, c)
        IN  /\ t.err = "none"
            /\ \A g \in 1..(nrows(t.d) - 1) : in_top_order(t.d, c, total_name(impl), g)

\* the underperformers view of each file with the N of its call
bottom_items(im, d, col) ==
  IF im = "A" THEN bottom_items_A(d, col, 5) ELSE bottom_items_B(d, col, 3)

bottom_n(im) == IF im = "A" THEN 5 ELSE 3
bottom_total(im) == IF im = "A" THEN c_SalesAmount ELSE n_TotalSales

\* the total sales of the group of key k in the subset d
group_total(d, col, k) ==
  sum_rows(d, { i \in 1..nrows(d) : cell(d, i, col) = k }, c_SalesAmount, nrows(d))

\* C15: the underperformers view with topN = N lists the N groups of the
\* subset with the smallest totals (all groups when there are fewer), in
\* ascending order, and no listed group has a larger total than a group
\* left out.
C15_UnderperformersSmallest ==
  pc = "page" =>
    \A c \in {c_Department, c_Category, c_Campaign} :
      (has_col(filtered, c) /\ nrows(filtered) > 0) =>
        LET t      == bottom_items(impl, filtered, c)
            keys   == unique(filtered, c)
            listed == { cell(t.d, g, c) : g \in 1..nrows(t.d) }
            size   == IF Cardinality(keys) < bottom_n(impl)
                        THEN Cardinality(keys) ELSE bottom_n(impl)
        IN  /\ t.err = "none"
            /\ nrows(t.d) = size
            /\ Cardinality(listed) = size
            /\ listed \subseteq keys
            /\ \A g \in 1..nrows(t.d) :
                 cell(t.d, g, bottom_total(impl)).v = group_total(filtered, c, cell(t.d, g, c))
            /\ \A g \in 1..(nrows(t.d) - 1) :
                 cell(t.d, g, bottom_total(impl)).v <= cell(t.d, g + 1, bottom_total(impl)).v
            /\ \A k \in listed, m \in keys \ listed :
                 group_total(filtered, c, k) <= group_total(filtered, c, m)

\* the helper of each file called so that it returns groups: A as written,
\* B with the sort field 'TotalSales'
grouped(im, d, col) ==
  IF im = "A" THEN get_top_items_A(d, col, 5)
  ELSE get_top_items_B(d, col, 10, n_TotalSales)

\* the names of the helper's columns: total, quantity, transactions, average
agg_names(im) ==
  IF im = "A" THEN << n_Sales, n_Qty, n_Txns, n_AvgPrice >>
  ELSE << n_TotalSales, c_Quantity, n_Transactions, n_AvgBasket >>

\* C16: in every group of the helper's result the total is the sum of
\* SalesAmount over the group's rows, the quantity the sum of Quantity, the
\* transaction count the number of distinct Transaction values, and the
\* average the total divided by the number of rows of the group.
C16_GroupAggregates ==
  pc = "page" =>
    \A c \in {c_City, c_Department, c_Category, c_Campaign} :
      (has_col(filtered, c) /\ nrows(filtered) > 0) =>
        LET t == grouped(impl, filtered, c)
            N == agg_names(impl)
        IN  /\ t.err = "none"
            /\ nrows(t.d) > 0
            /\ \A g \in 1..nrows(t.d) :
                 LET I == { i \in 1..nrows(filtered) : cell(filtered, i, c) = cell(t.d, g, c) }
                 IN  /\ I # {}
                     /\ cell(t.d, g, N[1]).v = sum_rows(filtered, I, c_SalesAmount, nrows(filtered))
                     /\ cell(t.d, g, N[2]).v = sum_rows(filtered, I, c_Quantity, nrows(filtered))
                     /\ cell(t.d, g, N[3]).v
                          = Cardinality({ cell(filtered, i, c_Transaction).v :
                                            i \in { j \in I : ~isna(cell(filtered, j, c_Transaction)) } })
                     /\ cell(t.d, g, N[4]).v
                          = << sum_rows(filtered, I, c_SalesAmount, nrows(filtered)),
                               Cardinality(I) >>

C16_Witness ==
  /\ pc = "page"
  /\ has_col(filtered, c_City)
  /\ nrows(filtered) = 2
  /\ cell(filtered, 1, c_City) = cell(filtered, 2, c_City)
  /\ cell(filtered, 1, c_Transaction) = cell(filtered, 2, c_Transaction)
  /\ cell(filtered, 1, c_SalesAmount).v # cell(filtered, 2, c_SalesAmount).v
  /\ LET t == grouped(impl, filtered, c_City).d
     IN  /\ nrows(t) = 1
         /\ cell(t, 1, agg_names(impl)[3]).v = 1
         /\ cell(t, 1, agg_names(impl)[4]).v[2] = 2

\* row r of the canonical table passes the clause `choice` on field c
passes(r, c, choice) == choice = "All" \/ r[at(df, c)] = StrV(choice)

\* C17: a city or store clause set to "All" removes no row, a clause set to
\* a value keeps exactly the rows whose field has that value, and the
\* result is the conjunction of the clauses; with "All", "All" and no date
\* clause the working subset is the whole canonical table.
C17_AllIsNoOp ==
  (FilterDone /\ ~date_clause(impl, date_range)) =>
    /\ filtered.cols = df.cols
    /\ filtered.rows =
         SelectSeq(df.rows, LAMBDA r : /\ passes(r, c_City, selected_city)
                                       /\ passes(r, c_Store_Format, selected_store))
    /\ selected_city = "All" =>
         filtered.rows = SelectSeq(df.rows, LAMBDA r : passes(r, c_Store_Format, selected_store))
    /\ selected_store = "All" =>
         filtered.rows = SelectSeq(df.rows, LAMBDA r : passes(r, c_City, selected_city))
    /\ (selected_city = "All" /\ selected_store = "All") => filtered = df

C17_Witness ==
  /\ FilterDone /\ ~date_clause(impl, date_range)
  /\ selected_city = "All" /\ selected_store = "Express"
  /\ nrows(df) = 2 /\ nrows(filtered) = 1
  /\ cell(filtered, 1, c_Store_Format) = StrV("Express")

\* a is b with some of its elements left out, the others in b's order
is_subseq(a, b) ==
  \E f \in [1..Len(a) -> 1..Len(b)] :
    /\ \A i \in 1..Len(a) : a[i] = b[f[i]]
    /\ \A i \in 1..(Len(a) - 1) : f[i] < f[i + 1]

\* C18: the filter step leaves the canonical table as it was, and the
\* working subset it makes has the canonical columns and a sub-sequence of
\* the canonical rows, each row unchanged.
C18_FilterFrame ==
  [][pc = "filter" =>
       /\ df' = df
       /\ filtered' # NoTable =>
            /\ filtered'.cols = df.cols
            /\ is_subseq(filtered'.rows, df.rows)]_vars

C18_Witness ==
  /\ FilterDone
  /\ nrows(df) = 2 /\ nrows(filtered) = 1
  /\ filtered.rows[1] = df.rows[2]
  /\ filtered.rows[1] # df.rows[1]

\* C19: over reruns of the script on the same loaded raw table, the
\* canonical table a run derives is the table the run before it derived.
C19_CanonicalStable ==
  [][(pc = "prepare" /\ pc' = "sidebar" /\ prev_df # NoTable) => df' = prev_df]_vars

\* C20: detect_columns returns, for every list of column names (the empty
\* list too), a mapping of exactly the 17 roles, each to None or to one of
\* the given column names.
C20_ResolverTotal ==
  /\ Cardinality(RoleSet) = 17
  /\ \A im \in {"A", "B"} :
       /\ DOMAIN detect_columns(im, << >>) = RoleSet
       /\ \A r \in RoleSet : detect_columns(im, << >>)[r] = None
  /\ pc = "prepare" =>
       /\ mapping = detect_columns(impl, raw.cols)
       /\ DOMAIN mapping = RoleSet
       /\ \A r \in RoleSet :
            mapping[r] = None \/ \E j \in 1..Len(raw.cols) : raw.cols[j] = mapping[r]

C20_Witness ==
  /\ pc = "prepare"
  /\ mapping["department"] = h_Dept
  /\ mapping["transaction"] = h_Invoice
  /\ mapping["zone"] = None

\* the text spells a number
coercible(t) == \E n \in NumDomain : t \in {int_str(n), flt_str(n)}

\* the text spells a timestamp
is_date_text(t) == \E x \in TsDomain : t = ts_str(x)

\* the value a numeric field takes for a missing cell: SalesAmount 0,
\* Quantity 1, Age 30 in file A and null in file B
missing_value(im, r) ==
  CASE r = "amount" -> IntV(0)
    [] r = "qty"    -> IntV(1)
    [] r = "age"    -> IF im = "A" THEN IntV(30) ELSE NaN

\* the normaliser raised in this run
NormalizeFailed == pc = "end" /\ raw # NoTable /\ df = NoTable

\* C21: a cell that cannot be coerced never ends the normaliser and is
\* treated as missing, alone: in a mapped numeric field every cell that
\* spells a number keeps it and any other cell gets the value of a missing
\* one; in the mapped Date field every cell that spells a timestamp keeps it
\* and any other cell is a null Date.
C21_CoercionIsolated ==
  /\ NormalizeFailed => \E j \in 1..ncols(raw) : is_dup(start_run(raw, mapping).d,
                                                        start_run(raw, mapping).d.cols[j])
  /\ Normalized =>
       /\ \A r \in {"amount", "qty", "age"} :
            renamed(r) =>
              \A i \in 1..nrows(df) :
                LET x == cell(df, i, canon_of[r])
                    t == source_text(r, i)
                IN  IF coercible(t) THEN is_num(x) /\ x.v = spelled(t)
                    ELSE IF isna(missing_value(impl, r)) THEN isna(x)
                    ELSE is_num(x) /\ x.v = missing_value(impl, r).v
       /\ renamed("date") =>
            \A i \in 1..nrows(df) :
              LET x == cell(df, i, c_Date)
                  t == source_text("date", i)
              IN  IF is_date_text(t) THEN x.k = "ts" /\ ts_str(x.v) = t
                  ELSE isna(x)

C21_Witness ==
  /\ Normalized
  /\ renamed("age") /\ renamed("date")
  /\ nrows(df) = 2
  /\ source_text("age", 1) = "17" /\ cell(df, 1, c_Age).v = 17
  /\ source_text("age", 2) = "old" /\ cell(df, 2, c_Age).v = missing_value(impl, "age").v
  /\ source_text("date", 1) = "2023-12-31 00:00:00" /\ cell(df, 1, c_Date).k = "ts"
  /\ source_text("date", 2) = "junk" /\ isna(cell(df, 2, c_Date))

\* C24: with the age role mapped, a row whose age cell is missing or does
\* not spell a number has a null Age and the AgeGroup "Unknown".
C24_NullAgeUnknown ==
  (Normalized /\ renamed("age")) =>
    \A i \in 1..nrows(df) :
      ~coercible(source_text("age", i)) =>
        /\ isna(cell(df, i, c_Age))
        /\ cell(df, i, c_AgeGroup) = StrV("Unknown")

\* C25: the resolver and the normaliser run only on a raw table that was
\* obtained; when no source yields a table the run reports the error and
\* stops, and no resolve, normalise, filter or render step happens in it.
C25_LoadFailureAborts ==
  /\ pc \in {"detect", "prepare", "sidebar", "filter", "page"} => raw # NoTable
  /\ (mapping # NoMapping \/ df # NoTable \/ filtered # NoTable \/ page # "") =>
       raw # NoTable
  /\ file = NoFile =>
       /\ pc \in {"load", "end"}
       /\ raw = NoTable /\ mapping = NoMapping /\ df = NoTable
       /\ filtered = NoTable /\ page = ""
       /\ pc = "end" => outcome = "stop"

C25_Witness ==
  /\ file = NoFile
  /\ pc = "end"
  /\ outcome = "stop"

\* the value the date widget shows before the user touches it: (min, max)
\* of the dates, or no widget when the table has no date
default_range(d) ==
  IF dates_of(d) = {} THEN NoRange
  ELSE Range(<< date_of(min_of(dates_of(d))), date_of(max_of(dates_of(d))) >>)

\* C26: with the filters at their defaults no row with a non-null Date is
\* left out of the working subset.
C26_DefaultRangeKeepsAll ==
  (FilterDone /\ selected_city = "All" /\ selected_store = "All"
     /\ date_range = default_range(df)) =>
    filtered.rows = SelectSeq(df.rows, LAMBDA r : ~isna(r[at(df, c_Date)]))

\* the run ended in the filter step
EndedInFilter ==
  /\ pc = "end" /\ page = "" /\ df # NoTable
  /\ has_col(df, c_City) /\ has_col(df, c_Store_Format)

\* C30: whatever the state of the date selection (none, a start date only,
\* both dates) the filter step does not raise, and a selection without both
\* dates is no date clause: it leaves out no row.
C30_DateSelectionSafe ==
  /\ EndedInFilter => outcome = "stop"
  /\ (FilterDone /\ (date_range.none \/ Len(date_range.v) < 2)) =>
       filtered.rows =
         SelectSeq(df.rows, LAMBDA r : /\ passes(r, c_City, selected_city)
                                       /\ passes(r, c_Store_Format, selected_store))

\* two exact averages (sum, count) are the same number
same_average(a, b) == a[1] * b[2] = b[1] * a[2]

\* the AvgBasket column of the store-format page of each file
store_avg_basket(im, d, I) ==
  IF im = "A" THEN store_avg_basket_A(d, I) ELSE store_avg_basket_B(d, I)

\* C29: a figure named AvgBasket is the same averaging mode in every
\* report: the AvgBasket of each store format on the store page is the
\* per-transaction average that the executive page shows as "Avg Basket",
\* taken over that store format's rows.
C29_AvgBasketOneMode ==
  (pc = "page" /\ has_col(filtered, c_Store_Format)) =>
    \A k \in unique(filtered, c_Store_Format) :
      LET I == { i \in 1..nrows(filtered) : cell(filtered, i, c_Store_Format) = k }
      IN  same_average(store_avg_basket(impl, filtered, I), avg_basket(filtered, I))

\* the rows of the per-city page of each file
city_data(im, d, f, city, ac) ==
  IF im = "A" THEN city_data_A(f, city, ac) ELSE city_data_B(d, ac)

\* C23: the figures of a page are computed from the working subset: the
\* rows the per-city page works on are rows of the working subset, so no
\* row left out by the city, store or date clause is counted.
C23_PagesUseSubset ==
  (pc = "end" /\ page = "city" /\ filtered # NoTable) =>
    is_subseq(city_data(impl, df, filtered, selected_city, analysis_city).rows,
              filtered.rows)

\* the table after `d = d.rename(columns=ren)`
renamed_table == start_run(raw, mapping).d

\* the run has resolved the columns of a loaded table
Resolved == pc \notin {"load", "detect"} /\ raw # NoTable

\* C27: after the rename step no two columns of the table carry the same
\* name, whatever the input columns and the mapping resolved from them.
C27_CanonicalNamesUnique ==
  Resolved =>
    \A j, k \in 1..Len(renamed_table.cols) :
      renamed_table.cols[j] = renamed_table.cols[k] => j = k

\* the normaliser of file im
normalize(im, d, m, rnd, now) ==
  IF im = "A" THEN prepare_data(d, m, rnd, now)
  ELSE prepare_dataframe(d, m, rnd, now)

\* the roles that resolved to column c, as positions in the role order
roles_on(c) == { i \in 1..Len(Roles) : mapping[Roles[i]] = c }
last_role(c) == CHOOSE i \in roles_on(c) : \A k \in roles_on(c) : k <= i
SharedColumns ==
  { c \in { raw.cols[j] : j \in 1..Len(raw.cols) } : Cardinality(roles_on(c)) > 1 }

\* C28: a source column that two roles resolved to is renamed to the
\* canonical name of the later role of the role order, the normaliser
\* returns a table, and the result is the one it returns when the earlier
\* role has no column.
C28_LaterRoleWins ==
  Resolved =>
    \A c \in SharedColumns :
      /\ \A j \in pos_of(raw, c) :
           renamed_table.cols[j] = canon_of[Roles[last_role(c)]]
      /\ \A i \in roles_on(c) \ {last_role(c)} :
           \A rnd \in RandomDraws(nrows(raw)), now \in NowValues :
             /\ normalize(impl, raw, mapping, rnd, now).err = "none"
             /\ normalize(impl, raw, mapping, rnd, now)
                  = normalize(impl, raw, [mapping EXCEPT ![Roles[i]] = None],
                              rnd, now)
      /\ pc \notin {"prepare"} => df # NoTable

C28_Witness ==
  /\ pc = "sidebar"
  /\ mapping["amount"] = h_sales_units
  /\ mapping["qty"] = h_sales_units
  /\ nrows(df) = 2
  /\ has_col(df, c_Quantity)
  /\ ~has_col(df, h_sales_units)
  /\ cell(df, 1, c_Quantity).v = 3
  /\ cell(df, 2, c_Quantity).v = 1
  /\ \A i \in 1..2 : cell(df, i, c_SalesAmount) = FltV(1)

\* the run reached the export button of the sidebar with a working subset
Exported == pc = "end" /\ outcome = "ok" /\ filtered # NoTable

\* the export re-parsed, and the mapping resolved from it
reparsed == read_csv(to_csv(filtered))
remapped == detect_columns(impl, reparsed.cols)

\* column c of table a holds the cells of column c of table b
same_column(a, b, c) ==
  /\ has_col(a, c) /\ has_col(b, c)
  /\ nrows(a) = nrows(b)
  /\ \A i \in 1..nrows(a) : cell(a, i, c) = cell(b, i, c)

\* the re-parsed export has the column names of the subset
C22_SameNames == Exported => reparsed.cols = filtered.cols

\* the re-parsed export spells the cell values of the subset
C22_SameValues == Exported => to_csv(reparsed) = to_csv(filtered)

\* every role whose canonical column is in the export resolves to it
C22_RolesResolveBack ==
  Exported =>
    \A r \in RoleSet :
      has_col(filtered, canon_of[r]) => remapped[r] = canon_of[r]

\* normalising the re-parsed export gives AgeGroup and PromoUsed again
C22_DerivedReproduced ==
  Exported =>
    \A rnd \in RandomDraws(nrows(filtered)), now \in NowValues :
      LET res == normalize(impl, reparsed, remapped, rnd, now)
      IN  /\ res.err = "none"
          /\ res.d.cols = filtered.cols
          /\ same_column(res.d, filtered, c_AgeGroup)
          /\ same_column(res.d, filtered, c_PromoUsed)

\* C22: an exported working subset, parsed again, has the column names and
\* the cell values of the subset; resolving and normalising the re-parsed
\* table maps every role to its own canonical column and gives the same
\* AgeGroup and PromoUsed.
C22_ExportRoundTrip ==
  /\ C22_SameNames
  /\ C22_SameValues
  /\ C22_RolesResolveBack
  /\ C22_DerivedReproduced
====
